---- MODULE Spec2Model ----
(***************************************************************************)
(* Terminal host of crates/terminal/src/terminal.rs.                       *)
(*                                                                         *)
(* A session (ZedTerminal) is created by the Deploy action: it owns a      *)
(* grid (Term) behind a FairMutex, a PTY with a child shell, a command     *)
(* channel (Notifier) and an I/O loop running on its own thread.  The      *)
(* foreground sends bytes to the global session, renders a view (cloning   *)
(* the grid handle under the session mutex) and lays an element out        *)
(* (copying the grid's cells under the grid lock).                         *)
(*                                                                         *)
(* The I/O loop, the channel and the lock are alacritty_terminal's and     *)
(* mio_extras' (EventLoop, Notifier, FairMutex); terminal.rs only wires    *)
(* them together.  Their steps are modelled from sections 4.3, 4.4 and 5   *)
(* of the specification; the wiring is modelled from terminal.rs.          *)
(***************************************************************************)
EXTENDS Integers, Sequences, FiniteSets, TLC

\* ------------------------------------------------------------- bounds
\* Bytes the child writes to the PTY in one run.
MaxBytes == 2
\* Send actions the foreground issues in one run.
MaxSends == 2

\* ---------------------------------------------------------- constants
Sessions == {1, 2}
\* Foreground contexts that may run an operation at the same time.
Threads == {"fg1", "fg2"}
\* A lock nobody holds.
Free == "free"
\* What the child may print.
Bytes == {"h", "i"}
\* The one payload fake_send_to_pty sends.
Payload == <<"M">>
\* The title a session is constructed with.
Placeholder == "Terminal"
\* SizeInfo::new(100., 100., 5., 5., 0., 0., false): 100x100 px, 5x5 cells.
SizeWidth == 100
SizeHeight == 100
CellWidth == 5
CellHeight == 5
SizeInfo == [columns |-> SizeWidth \div CellWidth, rows |-> SizeHeight \div CellHeight]

VARIABLES
    nSessions,   \* sessions constructed so far; their ids are 1..nSessions
    global,      \* the global session handle (cx.set_global), 0 when unset
    views,       \* sessions whose TerminalView is an open workspace item
    buffers,     \* buffers project.create_buffer has created
    propagated,  \* the last Deploy propagated the action (remote project)
    panicked,    \* the foreground panicked (expect on the PTY)
    lastDeploy,  \* what the last Deploy found: "none", "remote", "no_buffer",
                 \* "no_pty" or "spawned"
    deployRet,   \* what the last Deploy gave its caller
    title,       \* ZedTerminal.title
    gridSize,    \* the size the Term was built with
    ptySize,     \* the size the PTY was opened with
    ptyOut,      \* every byte the child has written to the PTY, in order
    nRead,       \* how many of them the loop has read
    childExited, \* the child process has exited
    readBuf,     \* bytes read and not yet applied (the current cycle)
    applied,     \* the bytes handed to the grid's parser, in order
    boundaries,  \* lengths of applied at which an apply cycle ended
    gridLock,    \* holder of the grid's FairMutex: Free, "io" or a thread
    loopPc,      \* the loop's position in its cycle
    loopState,   \* "None", "Running", "Draining", "Stopped"
    queue,       \* the channel's messages in flight
    enqueued,    \* the messages whose enqueue completed, in that order
    written,     \* what the loop has written to the PTY
    titleEvent,  \* the title of the last title-change event, "" before any
    ptyErr,      \* the last PTY error the loop met: "none", "transient",
                 \* "fatal"
    sessMutex,   \* holder of Arc<Mutex<ZedTerminal>>: Free or a thread
    nSends,      \* Send actions issued
    pc,          \* each foreground context's position
    target,      \* the session the context's operation is about
    snapshot,    \* the cells the context's last layout copied out
    nLines,      \* LayoutState.lines: how many shaped lines it holds
    chanRet,     \* what the channel answered the last send's enqueue
    sendRet,     \* what the last send gave its caller
    label        \* the title the context's last tab_content showed

sessVars == <<title, gridSize, ptySize, sessMutex>>
childVars == <<ptyOut, childExited>>
loopVars == <<nRead, readBuf, applied, boundaries, loopPc, loopState, written>>
chanVars == <<queue, enqueued, nSends>>
eventVars == <<titleEvent, ptyErr>>
wsVars == <<nSessions, global, views, buffers, propagated, panicked,
           lastDeploy, deployRet>>
layoutState == <<snapshot, nLines>>
fgVars == <<pc, target, layoutState, chanRet, sendRet, label>>
vars == <<wsVars, sessVars, childVars, loopVars, chanVars, eventVars, gridLock,
          fgVars>>

\* The sessions that have been constructed.
Live == 1..nSessions

Init ==
    /\ nSessions = 0
    /\ global = 0
    /\ views = {}
    /\ buffers = 0
    /\ propagated = FALSE
    /\ panicked = FALSE
    /\ lastDeploy = "none"
    /\ deployRet = "none"
    /\ title = [s \in Sessions |-> ""]
    /\ gridSize = [s \in Sessions |-> [columns |-> 0, rows |-> 0]]
    /\ ptySize = [s \in Sessions |-> [columns |-> 0, rows |-> 0]]
    /\ ptyOut = [s \in Sessions |-> <<>>]
    /\ nRead = [s \in Sessions |-> 0]
    /\ childExited = [s \in Sessions |-> FALSE]
    /\ readBuf = [s \in Sessions |-> <<>>]
    /\ applied = [s \in Sessions |-> <<>>]
    /\ boundaries = [s \in Sessions |-> {0}]
    /\ gridLock = [s \in Sessions |-> Free]
    /\ loopPc = [s \in Sessions |-> "poll"]
    /\ loopState = [s \in Sessions |-> "None"]
    /\ queue = [s \in Sessions |-> <<>>]
    /\ enqueued = [s \in Sessions |-> <<>>]
    /\ written = [s \in Sessions |-> <<>>]
    /\ titleEvent = [s \in Sessions |-> ""]
    /\ ptyErr = [s \in Sessions |-> "none"]
    /\ sessMutex = [s \in Sessions |-> Free]
    /\ nSends = 0
    /\ pc = [t \in Threads |-> "idle"]
    /\ target = [t \in Threads |-> 0]
    /\ snapshot = [t \in Threads |-> <<>>]
    /\ nLines = [t \in Threads |-> 0]
    /\ chanRet = [t \in Threads |-> "none"]
    /\ sendRet = [t \in Threads |-> "none"]
    /\ label = [t \in Threads |-> ""]

\* ------------------------------------------------- ZedTerminal::new
\* The grid the loop of session s applies to: EventLoop::new is given
\* Arc::clone(&term), the session's own grid.
LoopTermDetached(s) == IF s = 1 THEN 2 ELSE 1
LoopTerm(s) == s

\* The state of a session right after ZedTerminal::new(): the Term and the
\* PTY are built from the same size_info, the loop is spawned, the title is
\* the placeholder.
ZedTerminalNew(s) ==
    /\ title' = [title EXCEPT ![s] = Placeholder]
    /\ gridSize' = [gridSize EXCEPT ![s] = SizeInfo]
    /\ ptySize' = [ptySize EXCEPT ![s] = SizeInfo]
    /\ loopState' = [loopState EXCEPT ![s] = "Running"]
    /\ loopPc' = [loopPc EXCEPT ![s] = "poll"]

\* ------------------------------------------------ ZedTerminal::deploy
\* remote: the project is remote; bufferOk: create_buffer succeeded;
\* ptyOk: tty::new could open the PTY and start the shell.  The handler asks
\* them in this order and stops asking at the first that decides.
Found(remote, bufferOk, ptyOk) ==
    IF remote THEN "remote"
    ELSE IF ~bufferOk THEN "no_buffer"
    ELSE IF ~ptyOk THEN "no_pty"
    ELSE "spawned"

\* What the handler does: propagate the action, do nothing (the error is
\* logged), panic in ZedTerminal::new (expect on tty::new), or create.
DeployBranchIgnoringRemote(remote, bufferOk, ptyOk) ==
    IF ~bufferOk THEN "nothing"
    ELSE IF ~ptyOk THEN "panic"
    ELSE "create"
DeployBranch(remote, bufferOk, ptyOk) ==
    IF remote THEN "propagate"
    ELSE IF ~bufferOk THEN "nothing"
    ELSE IF ~ptyOk THEN "panic"
    ELSE "create"

\* cx.set_global(term.clone()): the new session replaces the global handle.
NewGlobalKeepFirst(old, new) == IF old = 0 THEN new ELSE old
NewGlobal(old, new) == new

\* What deploy hands back when it returns: the handler returns ().
DeployReturn(branch) == "unit"

Deploy(limit) ==
    /\ ~panicked
    /\ nSessions < limit
    /\ \E remote \in BOOLEAN, bufferOk \in BOOLEAN, ptyOk \in BOOLEAN :
        LET branch == DeployBranch(remote, bufferOk, ptyOk)
        IN  /\ lastDeploy' = Found(remote, bufferOk, ptyOk)
            /\ propagated' = (branch = "propagate")
            /\ CASE branch = "propagate" ->
                    /\ deployRet' = DeployReturn(branch)
                    /\ UNCHANGED <<nSessions, global, views, buffers, panicked,
                                   sessVars, loopVars>>
                 [] branch = "nothing" ->
                    /\ deployRet' = DeployReturn(branch)
                    /\ UNCHANGED <<nSessions, global, views, buffers, panicked,
                                   sessVars, loopVars>>
                 [] branch = "panic" ->
                    /\ buffers' = buffers + 1
                    /\ panicked' = TRUE
                    /\ deployRet' = "panic"
                    /\ UNCHANGED <<nSessions, global, views, sessVars,
                                   loopVars>>
                 [] branch = "create" ->
                    /\ buffers' = buffers + 1
                    /\ nSessions' = nSessions + 1
                    /\ ZedTerminalNew(nSessions + 1)
                    /\ global' = NewGlobal(global, nSessions + 1)
                    /\ views' = views \cup {nSessions + 1}
                    /\ deployRet' = DeployReturn(branch)
                    /\ UNCHANGED <<panicked, sessMutex, nRead, readBuf,
                                   applied, boundaries, written>>
    /\ UNCHANGED <<childVars, chanVars, eventVars, gridLock, fgVars>>

\* The workspace closes the item: the TerminalView is dropped.  Neither
\* TerminalView nor ZedTerminal has a Drop implementation, the io thread's
\* JoinHandle was dropped in new(), and the global keeps its own handle.
CloseView(s) ==
    /\ ~panicked
    /\ s \in views
    /\ views' = views \ {s}
    /\ UNCHANGED <<eventVars, nSessions, global, buffers, propagated, panicked,
                   lastDeploy, deployRet, sessVars, childVars, loopVars,
                   chanVars, gridLock, fgVars>>

\* ------------------------------------------ ZedTerminal::fake_send_to_pty
\* The channel is mio_extras' unbounded Sender: an enqueue never waits for
\* room.
CanEnqueueBounded(q) == Len(q) < 1
CanEnqueue(q) == TRUE

\* loop_tx.notify(bytes): the message goes to the back of the channel.
NotifyFront(q, m) == <<m>> \o q
Notify(q, m) == Append(q, m)

\* What fake_send_to_pty hands back to its caller for the channel's answer
\* r: the call is a statement and the handler returns ().
SendReturn(r) == "unit"

\* cx.global::<Arc<Mutex<ZedTerminal>>>().lock(): the session mutex only.
SendReadyGridToo(s) == sessMutex[s] = Free /\ gridLock[s] = Free
SendReady(s) == sessMutex[s] = Free

SendLock(t) ==
    /\ ~panicked
    /\ pc[t] = "idle"
    /\ global # 0
    /\ nSends < MaxSends
    /\ SendReady(global)
    /\ sessMutex' = [sessMutex EXCEPT ![global] = t]
    /\ pc' = [pc EXCEPT ![t] = "send"]
    /\ target' = [target EXCEPT ![t] = global]
    /\ nSends' = nSends + 1
    /\ UNCHANGED <<wsVars, eventVars, title, gridSize, ptySize, childVars, loopVars,
                   queue, enqueued, gridLock, layoutState, chanRet,
                   sendRet, label>>

\* The message of the n-th completed enqueue.
Msg(n) == [kind |-> "Input", bytes |-> Payload, id |-> n]

SendNotify(t) ==
    LET s == target[t]
        m == Msg(Len(enqueued[s]) + 1)
    IN  /\ ~panicked
        /\ pc[t] = "send"
        /\ CanEnqueue(queue[s])
        /\ IF loopState[s] = "Stopped"
           THEN /\ chanRet' = [chanRet EXCEPT ![t] = "ChannelClosed"]
                /\ UNCHANGED <<queue, enqueued>>
           ELSE /\ chanRet' = [chanRet EXCEPT ![t] = "Ok"]
                /\ queue' = [queue EXCEPT ![s] = Notify(@, m)]
                /\ enqueued' = [enqueued EXCEPT ![s] = Append(@, m)]
        /\ pc' = [pc EXCEPT ![t] = "sent"]
        /\ UNCHANGED <<wsVars, eventVars, sessVars, childVars, loopVars, nSends,
                       gridLock, target, layoutState, sendRet, label>>

\* The handler returns: the guard on the session mutex is dropped at the end
\* of the function, and the caller has what the handler returned.
SendEnd(t) ==
    /\ ~panicked
    /\ pc[t] = "sent"
    /\ sendRet' = [sendRet EXCEPT ![t] = SendReturn(chanRet[t])]
    /\ sessMutex' = [sessMutex EXCEPT ![target[t]] = Free]
    /\ pc' = [pc EXCEPT ![t] = "returned"]
    /\ UNCHANGED <<wsVars, eventVars, title, gridSize, ptySize, childVars, loopVars,
                   chanVars, gridLock, target, layoutState, chanRet, label>>

\* The caller goes on: the finished operation's locals are gone.
Resume(t) ==
    /\ ~panicked
    /\ pc[t] \in {"returned", "labelled"}
    /\ pc' = [pc EXCEPT ![t] = "idle"]
    /\ target' = [target EXCEPT ![t] = 0]
    /\ chanRet' = [chanRet EXCEPT ![t] = "none"]
    /\ sendRet' = [sendRet EXCEPT ![t] = "none"]
    /\ label' = [label EXCEPT ![t] = ""]
    /\ UNCHANGED <<wsVars, eventVars, sessVars, childVars, loopVars, chanVars, gridLock,
                   layoutState>>

\* ------------------------------------------------- TerminalView::render
RenderLock(t, s) ==
    /\ ~panicked
    /\ pc[t] = "idle"
    /\ s \in views
    /\ sessMutex[s] = Free
    /\ sessMutex' = [sessMutex EXCEPT ![s] = t]
    /\ pc' = [pc EXCEPT ![t] = "render"]
    /\ target' = [target EXCEPT ![t] = s]
    /\ UNCHANGED <<wsVars, eventVars, title, gridSize, ptySize, childVars, loopVars,
                   chanVars, gridLock, layoutState, chanRet, sendRet,
                   label>>

\* The guard of self.term.lock().unwrap() is a temporary of render's only
\* expression: it is dropped when render returns the element.
RenderUnlockKept(holder, t) == holder
RenderUnlock(holder, t) == IF holder = t THEN Free ELSE holder

\* TerminalEl::new(term.clone()): the element keeps the grid handle, the
\* session mutex is released.
RenderElement(t) ==
    /\ ~panicked
    /\ pc[t] = "render"
    /\ sessMutex' = [sessMutex EXCEPT ![target[t]] = RenderUnlock(@, t)]
    /\ pc' = [pc EXCEPT ![t] = "element"]
    /\ UNCHANGED <<wsVars, eventVars, title, gridSize, ptySize, childVars, loopVars,
                   chanVars, gridLock, target, layoutState, chanRet,
                   sendRet, label>>

\* --------------------------------------------------- TerminalEl::layout
\* self.grid_data.lock(): the element waits for the grid lock and takes it.
LayoutAcquireNoLock(t, s) == UNCHANGED gridLock
LayoutAcquire(t, s) ==
    /\ gridLock[s] = Free
    /\ gridLock' = [gridLock EXCEPT ![s] = t]

LayoutLock(t) ==
    /\ ~panicked
    /\ pc[t] = "element"
    /\ LayoutAcquire(t, target[t])
    /\ pc' = [pc EXCEPT ![t] = "layout"]
    /\ UNCHANGED <<wsVars, eventVars, sessVars, childVars, loopVars, chanVars, target,
                   layoutState, chanRet, sendRet, label>>

\* The grid after display_iter() has walked it: the iterator borrows the
\* cells and the closure copies each character, nothing is taken out.
DisplayIterTake(grid) == <<>>
DisplayIter(grid) == grid

\* The guard of self.grid_data.lock() is a temporary of the `let line`
\* statement: it is dropped at the end of that statement.
GuardDropKept(holder, t) == holder
GuardDrop(holder, t) == IF holder = t THEN Free ELSE holder

\* .grid().display_iter().map(|c| c.c).collect(): the cells are copied out,
\* and the guard is dropped at the end of the statement.
LayoutCopy(t) ==
    LET s == target[t]
    IN  /\ ~panicked
        /\ pc[t] = "layout"
        /\ snapshot' = [snapshot EXCEPT ![t] = applied[s]]
        /\ applied' = [applied EXCEPT ![s] = DisplayIter(@)]
        /\ gridLock' = [gridLock EXCEPT ![s] = GuardDrop(@, t)]
        /\ pc' = [pc EXCEPT ![t] = "shape"]
        /\ UNCHANGED <<wsVars, eventVars, sessVars, childVars, nRead, readBuf,
                       boundaries, loopPc, loopState, written, chanVars,
                       target, nLines, chanRet, sendRet, label>>

\* line.matches('\n').count() + 1: the number of lines
\* layout_highlighted_chunks is asked for, and shapes, out of the String
\* `line`.  `line` is the character of every cell of the visible grid, row
\* after row with nothing between the rows; the cells never written hold a
\* blank, so its line feeds are those among the copied characters.
ShapedLines(cells, size) ==
    Cardinality({i \in DOMAIN cells : cells[i] = "\n"}) + 1

\* layout_highlighted_chunks(...), line_height, LayoutState { lines, .. }:
\* shaping works on the copy, after the guard is gone.
LayoutShape(t) ==
    LET size == gridSize[target[t]]
    IN  /\ ~panicked
        /\ pc[t] = "shape"
        /\ nLines' = [nLines EXCEPT ![t] =
                          ShapedLines(snapshot[t], size)]
        /\ pc' = [pc EXCEPT ![t] = "paint"]
        /\ UNCHANGED <<wsVars, eventVars, sessVars, childVars, loopVars, chanVars,
                       gridLock, target, snapshot, chanRet, sendRet, label>>

\* ---------------------------------------------------- TerminalEl::paint
\* The shaped lines of the layout are painted; the layout state is done with.
Paint(t) ==
    /\ ~panicked
    /\ pc[t] = "paint"
    /\ pc' = [pc EXCEPT ![t] = "idle"]
    /\ target' = [target EXCEPT ![t] = 0]
    /\ snapshot' = [snapshot EXCEPT ![t] = <<>>]
    /\ nLines' = [nLines EXCEPT ![t] = 0]
    /\ UNCHANGED <<wsVars, eventVars, sessVars, childVars, loopVars, chanVars, gridLock,
                   chanRet, sendRet, label>>

\* ------------------------------------------- TerminalView::tab_content
TabLock(t, s) ==
    /\ ~panicked
    /\ pc[t] = "idle"
    /\ s \in views
    /\ sessMutex[s] = Free
    /\ sessMutex' = [sessMutex EXCEPT ![s] = t]
    /\ pc' = [pc EXCEPT ![t] = "tab"]
    /\ target' = [target EXCEPT ![t] = s]
    /\ UNCHANGED <<wsVars, eventVars, title, gridSize, ptySize, childVars, loopVars,
                   chanVars, gridLock, layoutState, chanRet, sendRet,
                   label>>

TabLabel(t) ==
    /\ ~panicked
    /\ pc[t] = "tab"
    /\ label' = [label EXCEPT ![t] = title[target[t]]]
    /\ sessMutex' = [sessMutex EXCEPT ![target[t]] = Free]
    /\ pc' = [pc EXCEPT ![t] = "labelled"]
    /\ UNCHANGED <<wsVars, eventVars, title, gridSize, ptySize, childVars, loopVars,
                   chanVars, gridLock, target, layoutState, chanRet,
                   sendRet>>

\* ------------------------------------------------------------ the child
\* The shell started by tty::new writes to its side of the PTY while the
\* loop still holds the other side.
ChildWrite(s, b) ==
    /\ ~panicked
    /\ s \in Live
    /\ ~childExited[s]
    /\ loopState[s] # "Stopped"
    /\ Len(ptyOut[s]) < MaxBytes
    /\ ptyOut' = [ptyOut EXCEPT ![s] = Append(@, b)]
    /\ UNCHANGED <<wsVars, eventVars, sessVars, childExited, loopVars, chanVars,
                   gridLock, fgVars>>

ChildExit(s) ==
    /\ ~panicked
    /\ s \in Live
    /\ ~childExited[s]
    /\ childExited' = [childExited EXCEPT ![s] = TRUE]
    /\ UNCHANGED <<wsVars, eventVars, sessVars, ptyOut, loopVars, chanVars, gridLock,
                   fgVars>>

\* --------------------------------------------------------- the I/O loop
\* The k bytes a read returns once n bytes of out were read before.
ReadChunkSkip(out, n, k) == SubSeq(out, n + 2, n + k)
ReadChunk(out, n, k) == SubSeq(out, n + 1, n + k)

\* GridModel.apply() of one byte: the grid is the bytes its parser was fed.
ApplyFront(grid, b) == <<b>> \o grid
Apply(grid, b) == Append(grid, b)

\* (a) a blocking read from the PTY returns at least one byte ...
LoopRead(s) ==
    /\ ~panicked
    /\ loopState[s] = "Running"
    /\ loopPc[s] = "poll"
    /\ nRead[s] < Len(ptyOut[s])
    /\ \E k \in 1..(Len(ptyOut[s]) - nRead[s]) :
        /\ readBuf' = [readBuf EXCEPT ![s] = ReadChunk(ptyOut[s], nRead[s], k)]
        /\ nRead' = [nRead EXCEPT ![s] = @ + k]
    /\ loopPc' = [loopPc EXCEPT ![s] = "read"]
    /\ UNCHANGED <<wsVars, eventVars, sessVars, childVars, applied, boundaries,
                   loopState, written, chanVars, gridLock, fgVars>>

\* ... immediately followed by GridModel.apply() under the grid lock.
LoopLock(s) ==
    /\ ~panicked
    /\ loopPc[s] = "read"
    /\ gridLock[LoopTerm(s)] = Free
    /\ gridLock' = [gridLock EXCEPT ![LoopTerm(s)] = "io"]
    /\ loopPc' = [loopPc EXCEPT ![s] = "apply"]
    /\ UNCHANGED <<wsVars, eventVars, sessVars, childVars, nRead, readBuf, applied,
                   boundaries, loopState, written, chanVars, fgVars>>

LoopApply(s) ==
    /\ ~panicked
    /\ loopPc[s] = "apply"
    /\ readBuf[s] # <<>>
    /\ applied' = [applied EXCEPT ![LoopTerm(s)] = Apply(@, Head(readBuf[s]))]
    /\ readBuf' = [readBuf EXCEPT ![s] = Tail(@)]
    /\ UNCHANGED <<wsVars, eventVars, sessVars, childVars, nRead, boundaries, loopPc,
                   loopState, written, chanVars, gridLock, fgVars>>

LoopUnlock(s) ==
    /\ ~panicked
    /\ loopPc[s] = "apply"
    /\ readBuf[s] = <<>>
    /\ gridLock' = [gridLock EXCEPT ![LoopTerm(s)] = Free]
    /\ boundaries' = [boundaries EXCEPT
                        ![LoopTerm(s)] = @ \cup {Len(applied[LoopTerm(s)])}]
    /\ loopPc' = [loopPc EXCEPT ![s] = "poll"]
    /\ UNCHANGED <<wsVars, eventVars, sessVars, childVars, nRead, readBuf, applied,
                   loopState, written, chanVars, fgVars>>

\* The bytes of one drained payload as they reach the PTY, each with the
\* id of the message it came from.
WriteOf(m) == [i \in 1..Len(m.bytes) |-> [byte |-> m.bytes[i], id |-> m.id]]

\* (b) the channel is drained and the payload is written to the PTY.
LoopWrite(s) ==
    /\ ~panicked
    /\ loopState[s] = "Running"
    /\ loopPc[s] = "poll"
    /\ queue[s] # <<>>
    /\ written' = [written EXCEPT ![s] = @ \o WriteOf(Head(queue[s]))]
    /\ queue' = [queue EXCEPT ![s] = Tail(@)]
    /\ UNCHANGED <<wsVars, eventVars, sessVars, childVars, nRead, readBuf, applied,
                   boundaries, loopPc, loopState, enqueued, nSends, gridLock,
                   fgVars>>

\* The read returns end-of-stream: the child has exited and every byte it
\* wrote has been read; the loop sees it between two read/apply cycles.
EofObservedEarly(s) == childExited[s]
EofObserved(s) ==
    /\ loopPc[s] = "poll"
    /\ childExited[s]
    /\ nRead[s] = Len(ptyOut[s])

\* Running -> Draining.
LoopEof(s) ==
    /\ ~panicked
    /\ loopState[s] = "Running"
    /\ EofObserved(s)
    /\ loopState' = [loopState EXCEPT ![s] = "Draining"]
    /\ UNCHANGED <<wsVars, eventVars, sessVars, childVars, nRead, readBuf, applied,
                   boundaries, loopPc, written, chanVars, gridLock, fgVars>>

\* Draining: no write is accepted, the pending reads are flushed into the
\* grid, then the loop is Stopped and its thread ends.
LoopStop(s) ==
    /\ ~panicked
    /\ loopState[s] = "Draining"
    /\ loopPc[s] = "poll"
    /\ applied' = [applied EXCEPT ![LoopTerm(s)] = @ \o readBuf[s]]
    /\ boundaries' = [boundaries EXCEPT
                        ![LoopTerm(s)] = @ \cup {Len(applied'[LoopTerm(s)])}]
    /\ readBuf' = [readBuf EXCEPT ![s] = <<>>]
    /\ loopState' = [loopState EXCEPT ![s] = "Stopped"]
    /\ UNCHANGED <<wsVars, eventVars, sessVars, childVars, nRead, loopPc, written,
                   chanVars, gridLock, fgVars>>

\* ---------------------------------------------------- the event proxy
\* The titles a child asks for with a title escape sequence.
Titles == {"zsh", "vim"}

\* ZedTerminalHandle::send_event: what becomes of the session's title when
\* the proxy is handed an event.  The proxy is built as ZedTerminalHandle {}
\* before the session exists: it has no field, and so no way to the session.
SendEvent(old, event) == old

\* The parser, fed the child's bytes under the grid lock, meets a title
\* escape sequence and reports it to the proxy.
LoopTitleEvent(s, ttl) ==
    /\ ~panicked
    /\ loopPc[s] = "apply"
    /\ readBuf[s] # <<>>
    /\ titleEvent[s] # ttl
    /\ titleEvent' = [titleEvent EXCEPT ![s] = ttl]
    /\ title' = [title EXCEPT
                   ![s] = SendEvent(@, [kind |-> "Title", title |-> ttl])]
    /\ UNCHANGED <<wsVars, ptyErr, gridSize, ptySize, sessMutex, childVars,
                   loopVars, chanVars, gridLock, fgVars>>

\* A read from or a write to the PTY fails in a way that may pass
\* (interrupted, would block): it is logged and the loop goes on.
LoopTransientError(s) ==
    /\ ~panicked
    /\ loopState[s] = "Running"
    /\ loopPc[s] = "poll"
    /\ ptyErr[s] = "none"
    /\ ptyErr' = [ptyErr EXCEPT ![s] = "transient"]
    /\ UNCHANGED <<wsVars, titleEvent, sessVars, childVars, loopVars,
                   chanVars, gridLock, fgVars>>

\* A read from or a write to the PTY fails for good: the loop is Stopped at
\* once and reports its exit to the proxy.
LoopFatalError(s) ==
    /\ ~panicked
    /\ loopState[s] = "Running"
    /\ loopPc[s] = "poll"
    /\ ptyErr' = [ptyErr EXCEPT ![s] = "fatal"]
    /\ loopState' = [loopState EXCEPT ![s] = "Stopped"]
    /\ title' = [title EXCEPT ![s] = SendEvent(@, [kind |-> "Exit"])]
    /\ UNCHANGED <<wsVars, titleEvent, gridSize, ptySize, sessMutex,
                   childVars, nRead, readBuf, applied, boundaries, loopPc,
                   written, chanVars, gridLock, fgVars>>

\* ------------------------------------------------ what the host can read
\* The status of session s as its host can tell it: ZedTerminal has the
\* fields loop_tx, term and title and no status field, and tab_content shows
\* the title, so a session whose title is still the placeholder reads as a
\* running terminal.
Status(s) == IF title[s] = Placeholder THEN "Running" ELSE "Exited"

\* ------------------------------------------------------- specification
Next ==
    \/ Deploy(1)
    \/ \E s \in Sessions : CloseView(s)
    \/ \E t \in Threads : SendLock(t)
    \/ \E t \in Threads : SendNotify(t)
    \/ \E t \in Threads : SendEnd(t)
    \/ \E t \in Threads : Resume(t)
    \/ \E t \in Threads, s \in Sessions : RenderLock(t, s)
    \/ \E t \in Threads : RenderElement(t)
    \/ \E t \in Threads : LayoutLock(t)
    \/ \E t \in Threads : LayoutCopy(t)
    \/ \E t \in Threads : LayoutShape(t)
    \/ \E t \in Threads : Paint(t)
    \/ \E t \in Threads, s \in Sessions : TabLock(t, s)
    \/ \E t \in Threads : TabLabel(t)
    \/ \E s \in Sessions, b \in Bytes : ChildWrite(s, b)
    \/ \E s \in Sessions : ChildExit(s)
    \/ \E s \in Sessions : LoopRead(s)
    \/ \E s \in Sessions : LoopLock(s)
    \/ \E s \in Sessions : LoopApply(s)
    \/ \E s \in Sessions : LoopUnlock(s)
    \/ \E s \in Sessions : LoopWrite(s)
    \/ \E s \in Sessions : LoopEof(s)
    \/ \E s \in Sessions : LoopStop(s)

Spec == Init /\ [][Next]_vars

\* The grid and its two users alone: one session, its child, its loop and the
\* frames rendered from it.
NextGrid ==
    \/ Deploy(1)
    \/ \E t \in Threads, s \in Sessions : RenderLock(t, s)
    \/ \E t \in Threads : RenderElement(t)
    \/ \E t \in Threads : LayoutLock(t)
    \/ \E t \in Threads : LayoutCopy(t)
    \/ \E t \in Threads : LayoutShape(t)
    \/ \E t \in Threads : Paint(t)
    \/ \E s \in Sessions, b \in Bytes : ChildWrite(s, b)
    \/ \E s \in Sessions : ChildExit(s)
    \/ \E s \in Sessions : LoopRead(s)
    \/ \E s \in Sessions : LoopLock(s)
    \/ \E s \in Sessions : LoopApply(s)
    \/ \E s \in Sessions : LoopUnlock(s)
    \/ \E s \in Sessions : LoopEof(s)
    \/ \E s \in Sessions : LoopStop(s)

\* One session with the events and the PTY errors its loop can meet, the
\* sends it is given and the titles read from it.
NextEvents ==
    \/ Deploy(1)
    \/ \E t \in Threads : SendLock(t)
    \/ \E t \in Threads : SendNotify(t)
    \/ \E t \in Threads : SendEnd(t)
    \/ \E t \in Threads : Resume(t)
    \/ \E t \in Threads, s \in Sessions : TabLock(t, s)
    \/ \E t \in Threads : TabLabel(t)
    \/ \E s \in Sessions, b \in Bytes : ChildWrite(s, b)
    \/ \E s \in Sessions : ChildExit(s)
    \/ \E s \in Sessions : LoopRead(s)
    \/ \E s \in Sessions : LoopLock(s)
    \/ \E s \in Sessions : LoopApply(s)
    \/ \E s \in Sessions : LoopUnlock(s)
    \/ \E s \in Sessions : LoopWrite(s)
    \/ \E s \in Sessions : LoopEof(s)
    \/ \E s \in Sessions : LoopStop(s)
    \/ \E s \in Sessions, ttl \in Titles : LoopTitleEvent(s, ttl)
    \/ \E s \in Sessions : LoopTransientError(s)
    \/ \E s \in Sessions : LoopFatalError(s)

SpecEvents == Init /\ [][NextEvents]_vars

\* The workspace with up to two sessions: the deploys, the sends and title
\* reads of the host, and each session's loop draining its channel until its
\* child exits.
NextHost ==
    \/ Deploy(2)
    \/ \E s \in Sessions : CloseView(s)
    \/ \E t \in Threads : SendLock(t)
    \/ \E t \in Threads : SendNotify(t)
    \/ \E t \in Threads : SendEnd(t)
    \/ \E t \in Threads : Resume(t)
    \/ \E t \in Threads, s \in Sessions : TabLock(t, s)
    \/ \E t \in Threads : TabLabel(t)
    \/ \E s \in Sessions : ChildExit(s)
    \/ \E s \in Sessions : LoopWrite(s)
    \/ \E s \in Sessions : LoopEof(s)
    \/ \E s \in Sessions : LoopStop(s)

SpecHost == Init /\ [][NextHost]_vars

\* FairMutex: a context that keeps asking for the grid lock gets it once it
\* has been free often enough (strong fairness of the two acquisitions), and
\* a context that holds the lock is scheduled (weak fairness of the steps it
\* takes while holding it).
GridFairness ==
    /\ \A s \in Sessions :
        /\ SF_vars(LoopLock(s))
        /\ WF_vars(LoopApply(s))
        /\ WF_vars(LoopUnlock(s))
    /\ \A t \in Threads :
        /\ SF_vars(LayoutLock(t))
        /\ WF_vars(LayoutCopy(t))

FairSpec == Init /\ [][NextGrid]_vars /\ GridFairness

\* ============================================================== claims

\* s is an initial part of t.
IsPrefix(s, t) == Len(s) <= Len(t) /\ SubSeq(t, 1, Len(s)) = s

\* The payloads of the first k messages of msgs as they reach the PTY.
RECURSIVE WrittenOf(_, _)
WrittenOf(msgs, k) ==
    IF k = 0 THEN <<>> ELSE WrittenOf(msgs, k - 1) \o WriteOf(msgs[k])

\* C1: the bytes handed to the grid's apply are at every moment a prefix of
\* what the child wrote to the PTY (none reordered, duplicated or invented),
\* and every byte the loop has read is either applied or waiting, in order,
\* in the current cycle (none skipped).
C1_AppliedInOrder ==
    \A s \in Live :
        /\ IsPrefix(applied[s], ptyOut[s])
        /\ applied[s] \o readBuf[s] = SubSeq(ptyOut[s], 1, nRead[s])

\* Two different bytes were applied while a layout had copied the grid in
\* between and a payload was written.
C1_Witness ==
    \E s \in Live, t \in Threads :
        /\ Len(applied[s]) >= 2
        /\ applied[s][1] # applied[s][2]
        /\ pc[t] = "shape" /\ target[t] = s /\ Len(snapshot[t]) = 1
        /\ written[s] # <<>>

\* C2: every snapshot a layout copies out is the grid as it was at a
\* boundary between two apply cycles: all of a cycle's bytes or none.
C2_SnapshotAtBoundary ==
    \A t \in Threads :
        pc[t] = "shape" =>
            \E n \in boundaries[target[t]] :
                /\ n <= Len(applied[target[t]])
                /\ snapshot[t] = SubSeq(applied[target[t]], 1, n)

\* Two layouts hold different snapshots of one grid, one of them holding a
\* whole two-byte cycle, while the loop has the next byte in hand.
C2_Witness ==
    \E s \in Live :
        /\ pc["fg1"] = "shape" /\ target["fg1"] = s
        /\ pc["fg2"] = "shape" /\ target["fg2"] = s
        /\ snapshot["fg1"] = <<>>
        /\ Len(snapshot["fg2"]) = 2
        /\ boundaries[s] = {0, 2}

\* C3: what the loop has written to the PTY is exactly the payloads of the
\* first k messages in the order their enqueues completed, and while the
\* loop is Running the remaining messages are the channel's content, in
\* that order: none lost, duplicated or reordered.
C3_WrittenInEnqueueOrder ==
    \A s \in Live :
        \E k \in 0..Len(enqueued[s]) :
            /\ written[s] = WrittenOf(enqueued[s], k)
            /\ loopState[s] = "Running" =>
                   queue[s] = SubSeq(enqueued[s], k + 1, Len(enqueued[s]))

\* Two payloads were enqueued and both written, in the order of their
\* enqueues, by a loop that is still Running.
C3_Witness ==
    \E s \in Live :
        /\ Len(written[s]) = 2
        /\ written[s][1].id = 1 /\ written[s][2].id = 2
        /\ loopState[s] = "Running"

\* C5: a send never waits for the loop: whatever the loop's state and
\* position, whoever holds the grid lock and however many messages are
\* queued, a send whose session mutex is free can start (as long as the run
\* has sends left), and a started send can enqueue and return.
C5_SendNeverWaitsForLoop ==
    \A t \in Threads :
        /\ (/\ ~panicked /\ pc[t] = "idle" /\ global # 0
            /\ nSends < MaxSends /\ sessMutex[global] = Free)
               => ENABLED SendLock(t)
        /\ (~panicked /\ pc[t] = "send") => ENABLED SendNotify(t)
        /\ (~panicked /\ pc[t] = "sent") => ENABLED SendEnd(t)

\* A send has enqueued behind a queued message while the loop holds the
\* grid lock in the middle of an apply.
C5_Witness ==
    \E t \in Threads :
        /\ pc[t] = "sent" /\ chanRet[t] = "Ok"
        /\ gridLock[target[t]] = "io"
        /\ readBuf[target[t]] # <<>>
        /\ Len(queue[target[t]]) = 2

\* C6: a send issued after the loop has stopped gives its caller the
\* explicit closed-channel result: not a success, and not nothing.
C6_ClosedChannelReported ==
    \A t \in Threads :
        (pc[t] = "returned" /\ chanRet[t] = "ChannelClosed") =>
            sendRet[t] = "ChannelClosed"

C9_ExitReflected ==
    \A s \in Live :
        (childExited[s] /\ loopState[s] = "Stopped") =>
            /\ Status(s) = "Exited"
            /\ applied[s] = ptyOut[s]

\* The child of session s has been terminated.
PtyTerminated(s) == childExited[s]
\* The loop of session s has been told to stop, or has stopped.
StopSignalled(s) ==
    \/ loopState[s] \in {"Draining", "Stopped"}
    \/ \E i \in 1..Len(queue[s]) : queue[s][i].kind = "Shutdown"

\* C10: a session whose view has been closed is torn down: its child is
\* terminated and its loop is stopped or told to stop.
C10_ClosedSessionTornDown ==
    \A s \in Live :
        s \notin views => (PtyTerminated(s) /\ StopSignalled(s))

\* C11: when the PTY cannot be opened or the shell cannot be started, the
\* Deploy that asked for it hands its caller the error SpawnFailed as a value
\* and goes on: nothing panics, and no loop, session or view exists.
C11_SpawnFailureReturned ==
    lastDeploy = "no_pty" =>
        /\ deployRet = "SpawnFailed"
        /\ ~panicked
        /\ nSessions = 0 /\ views = {} /\ global = 0
        /\ \A s \in Sessions : loopState[s] = "None"

C13_LockOnlyWhileCopying ==
    \A t \in Threads, s \in Sessions :
        gridLock[s] = t => (pc[t] = "layout" /\ target[t] = s)

\* One frame is being shaped and another painted while the loop holds the
\* lock of the grid they were copied from and applies a byte to it.
C13_Witness ==
    \E s \in Live :
        /\ pc["fg1"] = "shape" /\ target["fg1"] = s
        /\ pc["fg2"] = "paint" /\ target["fg2"] = s
        /\ gridLock[s] = "io" /\ readBuf[s] # <<>>

\* C14: the grid of a session changes only in a step of its loop that holds
\* its lock and applies bytes; every step of a foreground operation (render,
\* layout, paint, reading the title, send) leaves the content and the
\* dimensions of every grid as they were.
C14_GridFrame ==
    [][/\ \A s \in Live :
            /\ applied'[s] # applied[s] =>
                  /\ gridLock[s] = "io" /\ gridLock'[s] = "io"
                  /\ loopPc[s] = "apply"
                  /\ pc' = pc
            /\ gridSize'[s] = gridSize[s]
       /\ pc' # pc => (applied' = applied /\ gridSize' = gridSize)]_vars

\* A frame copied from a grid holding two bytes is about to be painted, a
\* title has been read and a send has enqueued: the grid still holds the two
\* bytes.
C14_Witness ==
    \E s \in Live :
        /\ pc["fg1"] = "paint" /\ target["fg1"] = s
        /\ Len(snapshot["fg1"]) = 2 /\ applied[s] = snapshot["fg1"]
        /\ pc["fg2"] = "labelled"
        /\ enqueued[s] # <<>>

\* C15: a layout shapes one line for every visible row of the grid, so the
\* frame it hands to paint holds as many lines as the grid has rows.
C15_OneLinePerRow ==
    \A t \in Threads :
        pc[t] = "paint" => nLines[t] = gridSize[target[t]].rows

\* C16: the title of a session is the placeholder until its first
\* title-change event and the title of its latest event from then on, and a
\* context reading the title holds the session mutex and no grid lock, so it
\* can finish whoever holds the grid.
C16_TitleFollowsEvents ==
    /\ \A s \in Live :
        title[s] = IF titleEvent[s] = "" THEN Placeholder ELSE titleEvent[s]
    /\ \A t \in Threads :
        pc[t] = "tab" =>
            /\ \A s \in Sessions : gridLock[s] # t
            /\ ENABLED TabLabel(t)

\* C17: a PTY error that may pass leaves the loop Running and the grid, the
\* channel and the status the host reads as they were; a PTY error that does
\* not pass stops the loop in the same step, and the host then reads Exited.
C17_PtyErrorsHandled ==
    [][\A s \in Live :
         /\ (ptyErr'[s] = "transient" /\ ptyErr[s] # "transient") =>
               /\ loopState'[s] = "Running"
               /\ applied'[s] = applied[s] /\ queue'[s] = queue[s]
               /\ title'[s] = title[s]
         /\ (ptyErr'[s] = "fatal" /\ ptyErr[s] # "fatal") =>
               /\ loopState'[s] = "Stopped"
               /\ title'[s] # Placeholder]_vars

\* C18: a Deploy creates a session (PTY, grid, channel, loop, view) only
\* when the project is local and the buffer was created; on a remote project
\* it propagates the action and creates nothing, not even a buffer; when the
\* buffer cannot be created it creates nothing either.
C18_DeployCreatesOnlyLocal ==
    [][/\ nSessions' # nSessions =>
            /\ lastDeploy' = "spawned"
            /\ buffers' = buffers + 1
            /\ ~propagated'
       /\ nSessions' = nSessions =>
            /\ global' = global
            /\ views' \subseteq views
            /\ \A s \in Sessions \ Live :
                 /\ loopState'[s] = "None"
                 /\ gridSize'[s] = gridSize[s] /\ ptySize'[s] = ptySize[s]
       /\ (lastDeploy' # lastDeploy /\ lastDeploy' = "remote") =>
            (propagated' /\ buffers' = buffers /\ nSessions' = nSessions)
       /\ (lastDeploy' # lastDeploy /\ lastDeploy' = "no_buffer") =>
            (~propagated' /\ buffers' = buffers /\ nSessions' = nSessions)
      ]_vars

\* A Deploy on a remote project has come after a successful one: the action
\* was propagated, and there is still one session, one view and one buffer.
C18_Witness ==
    /\ lastDeploy = "remote" /\ propagated
    /\ nSessions = 1 /\ views = {1} /\ buffers = 1
    /\ loopState[1] = "Running" /\ loopState[2] = "None"

\* C19: a context that holds a session mutex never waits for a grid lock
\* and holds none, the loop's thread never holds a session mutex, and whoever
\* holds a lock has a step to take, so the locks cannot deadlock.
C19_NoLockCycle ==
    /\ \A s \in Sessions : sessMutex[s] # "io"
    /\ \A t \in Threads, s \in Sessions :
        sessMutex[s] = t =>
            /\ pc[t] \in {"send", "sent", "render", "tab"}
            /\ target[t] = s
            /\ \A r \in Sessions : gridLock[r] # t
            /\ panicked \/ ENABLED (SendNotify(t) \/ SendEnd(t)
                                      \/ RenderElement(t) \/ TabLabel(t))
    /\ \A t \in Threads, s \in Sessions :
        gridLock[s] = t =>
            /\ \A r \in Sessions : sessMutex[r] # t
            /\ panicked \/ ENABLED LayoutCopy(t)
    /\ \A s \in Sessions :
        gridLock[s] = "io" =>
            panicked \/ ENABLED (LoopApply(s) \/ LoopUnlock(s))

\* One context holds the session mutex in a send while the other holds the
\* grid lock in a layout and the loop waits for the grid lock.
C19_Witness ==
    \E s \in Live :
        /\ sessMutex[s] = "fg1" /\ pc["fg1"] = "send"
        /\ gridLock[s] = "fg2" /\ pc["fg2"] = "layout"
        /\ loopPc[s] = "read"

\* C20: a send is for the session deployed last and enqueues on that
\* session's channel alone, so there is no send before the first successful
\* Deploy; a successful Deploy adds a session of its own, makes it the global
\* handle and leaves the earlier sessions, their channels, loops and views as
\* they were.
C20_SendToLatestSession ==
    [][/\ \A t \in Threads :
            (pc[t] # "send" /\ pc'[t] = "send") =>
                (nSessions >= 1 /\ target'[t] = nSessions)
       /\ \A s \in Sessions :
            enqueued'[s] # enqueued[s] =>
                /\ \E t \in Threads :
                     pc[t] = "send" /\ target[t] = s /\ pc'[t] = "sent"
                /\ \A r \in Sessions \ {s} :
                     enqueued'[r] = enqueued[r] /\ queue'[r] = queue[r]
       /\ nSessions' # nSessions =>
            /\ nSessions' = nSessions + 1
            /\ global' = nSessions'
            /\ views' = views \cup {nSessions'}
            /\ \A s \in Live :
                 /\ loopState'[s] = loopState[s]
                 /\ queue'[s] = queue[s] /\ enqueued'[s] = enqueued[s]
                 /\ written'[s] = written[s] /\ title'[s] = title[s]
      ]_vars

\* Two sessions are deployed, both views are open, both loops run; the first
\* was sent to before the second existed and has written it out, the second
\* has been sent to since.
C20_Witness ==
    /\ nSessions = 2 /\ global = 2 /\ views = {1, 2}
    /\ loopState[1] = "Running" /\ loopState[2] = "Running"
    /\ written[1] # <<>> /\ Len(enqueued[1]) = 1
    /\ Len(enqueued[2]) = 1

====
